---- MODULE Spec2Model ----
(***************************************************************************)
(* Model of the openalternative web application's two stateful pieces:     *)
(*   - SearchBox (src/app/routes/_index/SearchBox.tsx): a controlled text  *)
(*     input whose value is debounced by 250ms before it is handed to the  *)
(*     search index through refine;                                        *)
(*   - AlternativePage (src/app/(web)/alternatives/[slug]/page.tsx): two   *)
(*     concurrent fetches joined by Promise.all, followed by the           *)
(*     computation of the derived display structures.                      *)
(* Time is counted in milliseconds and advances in steps of TickMs.        *)
(***************************************************************************)
EXTENDS Integers, Sequences, FiniteSets, TLC

VARIABLES
    \* ---- SearchBox ----
    mounted,        \* the component has rendered and run its mount effects
    query,          \* the index client's current query (useSearchBox().query)
    status,         \* useInstantSearch().status
    searchQuery,    \* useState: the local text of the input
    debounced,      \* useDebounce's state: debouncedSearchTerm
    timer,          \* the pending setTimeout of useDebounce
    call,           \* the refine call made by the last step, if any
    sinceChange,    \* ms elapsed since the input text last changed (history)
    burst,          \* consecutive text changes less than Delay apart (history)
    lastInput,      \* the last user input: "none", "change" or "reset" (history)
    refinedSinceInput, \* refine was called after the last user input (history)
    userActive,     \* the user has not stopped typing yet
    \* ---- AlternativePage ----
    dbAlternative,  \* the store's record for the slug, or Null
    dbTools,        \* the store's tools of the alternative, in query order
    pagePc,         \* where AlternativePage is
    altPc,          \* where the page's getAlternative(props) call is
    toolsPc,        \* where the page's findToolsWithCategories call is
    alternative,    \* the value getAlternative resolved with
    tools,          \* the value findToolsWithCategories resolved with
    page,           \* what AlternativePage returned, or NoPage
    metaPc,         \* where generateMetadata is
    metadata,       \* what generateMetadata returned, or NoMetadata
    order,          \* the page's fetches in their order of completion (history)
    notFoundBy,     \* the callers in which notFound() was invoked (history)
    \* ---- Breadcrumbs ----
    breadcrumbsPc,  \* where Breadcrumbs is: "init" or "rendered"
    items,          \* the items prop given to Breadcrumbs
    nav,            \* the children of <nav> the render returned
    jsonLd          \* the itemListElement of the render's JSON-LD graph

sbVars == <<mounted, query, status, searchQuery, debounced, timer, call,
            sinceChange, burst, lastInput, refinedSinceInput, userActive>>

pgVars == <<dbAlternative, dbTools, pagePc, altPc, toolsPc, alternative, tools,
            page, metaPc, metadata, order, notFoundBy>>

bcVars == <<breadcrumbsPc, items, nav, jsonLd>>

vars == <<sbVars, pgVars, bcVars>>

-----------------------------------------------------------------------------
\* Bounds of the model.
MaxLen == 2       \* longest text typed into the input
TickMs == 50      \* granularity of the clock, in ms
MaxBurst == 3     \* the burst counter saturates here
MaxRichTools == 3 \* longest tool list whose tools carry any categories
MaxTools == 6     \* longest tool list
MaxItems == 3     \* longest items list given to Breadcrumbs
MaxCount == 2     \* largest stored _count.tools

\* useDebounce(searchQuery, 250)
Delay == 250

Chars == {"a", "b"}

RECURSIVE TextsOfLen(_)
TextsOfLen(n) ==
    IF n = 0 THEN {""}
    ELSE {s \o c : s \in TextsOfLen(n - 1), c \in Chars}

Texts == UNION {TextsOfLen(n) : n \in 0..MaxLen}

Min(a, b) == IF a < b THEN a ELSE b
Max(a, b) == IF a > b THEN a ELSE b

Statuses == {"idle", "loading", "stalled", "error"}

NoTimer == [active |-> FALSE, value |-> "", remaining |-> 0]
NoCall == [made |-> FALSE, value |-> "", onMount |-> FALSE]

-----------------------------------------------------------------------------
\* SearchBox

\* A faulty variant of StartTimer: a timeout already pending keeps its
\* deadline and only takes the new value.
StartTimerKeepDeadline(v) ==
    IF timer.active THEN [timer EXCEPT !.value = v]
    ELSE [active |-> TRUE, value |-> v, remaining |-> Delay]

\* setTimeout(() => setDebouncedValue(value), delay) in useDebounce's effect;
\* the effect's cleanup has cleared the previous timeout.
StartTimer(v) == [active |-> TRUE, value |-> v, remaining |-> Delay]

\* const isSearchStalled = status === "stalled"
IsSearchStalled == status = "stalled"

\* A faulty variant of ShowResetButton: shown whenever there is text.
ShowResetButtonWhenText == Len(searchQuery) # 0

\* {!!searchQuery.length && !isSearchStalled && <button type="reset">}
ShowResetButton == Len(searchQuery) # 0 /\ ~IsSearchStalled

\* A faulty variant of ShowLoaderIcon: shown for every search in flight.
ShowLoaderIconWhenBusy == status \in {"loading", "stalled"}

\* {isSearchStalled && <LoaderIcon/>}
ShowLoaderIcon == IsSearchStalled

\* refine(v): the index client takes v as its query and schedules a search.
\* (refine keeps its identity across renders, so the effect of lines 17-19
\* runs on mount and when debouncedSearchTerm changes.)
Refine(v, isMount) ==
    /\ query' = v
    /\ status' = "loading"
    /\ call' = [made |-> TRUE, value |-> v, onMount |-> isMount]
    /\ refinedSinceInput' = TRUE

\* First render and its effects: useState(query), useDebounce's state and
\* timeout, then the effect that calls refine(debouncedSearchTerm).
Mount ==
    /\ ~mounted
    /\ UNCHANGED <<pgVars, bcVars>>
    /\ mounted' = TRUE
    /\ searchQuery' = query
    /\ debounced' = query
    /\ timer' = StartTimer(query)
    /\ Refine(query, TRUE)
    /\ sinceChange' = 0
    /\ UNCHANGED <<burst, lastInput, userActive>>

\* A faulty variant of SetSearchQuery: the pending timeout is not cleared, so
\* it fires with the value it was started with.
SetSearchQueryNoCleanup(v, input) ==
    /\ searchQuery' = v
    /\ timer' = IF timer.active THEN timer ELSE StartTimer(v)
    /\ sinceChange' = 0
    /\ burst' = IF sinceChange < Delay THEN Min(burst + 1, MaxBurst) ELSE 1
    /\ lastInput' = input
    /\ refinedSinceInput' = FALSE
    /\ call' = NoCall
    /\ UNCHANGED <<mounted, query, status, debounced, userActive>>

\* setSearchQuery(v) with v different from the state: re-render, useDebounce's
\* effect is cleaned up (clearTimeout) and run again (setTimeout).
SetSearchQuery(v, input) ==
    /\ searchQuery' = v
    /\ timer' = StartTimer(v)
    /\ sinceChange' = 0
    /\ burst' = IF sinceChange < Delay THEN Min(burst + 1, MaxBurst) ELSE 1
    /\ lastInput' = input
    /\ refinedSinceInput' = FALSE
    /\ call' = NoCall
    /\ UNCHANGED <<mounted, query, status, debounced, userActive>>

\* onChange={(e) => setSearchQuery(e.currentTarget.value)}
OnChange ==
    /\ mounted /\ userActive
    /\ UNCHANGED <<pgVars, bcVars>>
    /\ \E v \in Texts \ {searchQuery} : SetSearchQuery(v, "change")

\* onReset={() => setSearchQuery("")}, reached through the reset button.
OnReset ==
    /\ mounted /\ userActive
    /\ UNCHANGED <<pgVars, bcVars>>
    /\ ShowResetButton
    /\ SetSearchQuery("", "reset")

\* A faulty variant of TimerFire: the timeout's value is dropped.
TimerFireDropsValue ==
    /\ mounted
    /\ UNCHANGED <<pgVars, bcVars>>
    /\ timer.active /\ timer.remaining = 0
    /\ timer' = NoTimer
    /\ call' = NoCall
    /\ UNCHANGED <<mounted, query, status, searchQuery, debounced, sinceChange,
                   burst, lastInput, refinedSinceInput, userActive>>

\* A faulty variant of TimerFire: the effect does not submit an empty text.
TimerFireSkipsEmpty ==
    /\ mounted
    /\ UNCHANGED <<pgVars, bcVars>>
    /\ timer.active /\ timer.remaining = 0
    /\ timer' = NoTimer
    /\ IF timer.value # debounced
       THEN /\ debounced' = timer.value
            /\ IF timer.value # ""
               THEN Refine(timer.value, FALSE)
               ELSE /\ call' = NoCall
                    /\ UNCHANGED <<query, status, refinedSinceInput>>
       ELSE /\ call' = NoCall
            /\ UNCHANGED <<debounced, query, status, refinedSinceInput>>
    /\ UNCHANGED <<mounted, searchQuery, sinceChange, burst, lastInput, userActive>>

\* The timeout fires: setDebouncedValue(value). A value equal to the state
\* bails out of rendering; a new one re-renders and the effect calls refine.
TimerFire ==
    /\ mounted
    /\ UNCHANGED <<pgVars, bcVars>>
    /\ timer.active /\ timer.remaining = 0
    /\ timer' = NoTimer
    /\ IF timer.value # debounced
       THEN /\ debounced' = timer.value
            /\ Refine(timer.value, FALSE)
       ELSE /\ call' = NoCall
            /\ UNCHANGED <<debounced, query, status, refinedSinceInput>>
    /\ UNCHANGED <<mounted, searchQuery, sinceChange, burst, lastInput, userActive>>

\* TickMs milliseconds pass.
Tick ==
    /\ mounted
    /\ UNCHANGED <<pgVars, bcVars>>
    /\ (timer.active /\ timer.remaining > 0) \/ sinceChange < Delay
    /\ timer' = IF timer.active
                THEN [timer EXCEPT !.remaining = Max(timer.remaining - TickMs, 0)]
                ELSE timer
    /\ sinceChange' = Min(sinceChange + TickMs, Delay)
    /\ call' = NoCall
    /\ UNCHANGED <<mounted, query, status, searchQuery, debounced, burst,
                   lastInput, refinedSinceInput, userActive>>

\* The search status reported by useInstantSearch() moves on.
StatusStep ==
    /\ mounted
    /\ UNCHANGED <<pgVars, bcVars>>
    /\ \E s \in Statuses :
        /\ \/ status = "loading" /\ s \in {"stalled", "idle", "error"}
           \/ status = "stalled" /\ s \in {"idle", "error"}
           \/ status \in {"idle", "error"} /\ s = "loading"
        /\ status' = s
    /\ call' = NoCall
    /\ UNCHANGED <<mounted, query, searchQuery, debounced, timer, sinceChange,
                   burst, lastInput, refinedSinceInput, userActive>>

\* The user stops typing: no further onChange or reset events.
UserStops ==
    /\ mounted /\ userActive
    /\ UNCHANGED <<pgVars, bcVars>>
    /\ userActive' = FALSE
    /\ call' = NoCall
    /\ UNCHANGED <<mounted, query, status, searchQuery, debounced, timer,
                   sinceChange, burst, lastInput, refinedSinceInput>>

SearchNext ==
    \/ Mount
    \/ OnChange
    \/ OnReset
    \/ TimerFire
    \/ Tick
    \/ StatusStep
    \/ UserStops

-----------------------------------------------------------------------------
\* AlternativePage: the data

\* Category names, as sequences of characters.
N2 == <<"2">>
N10 == <<"1", "0">>
N01 == <<"0", "1">>
A == <<"a">>
Constructor == <<"c", "o", "n", "s", "t", "r", "u", "c", "t", "o", "r">>

\* The categories one tool carries, in the order of its join records.
RichCategoryChoices == {<<>>, <<A>>, <<N2>>, <<N10, A>>, <<N01, Constructor>>}
PlainCategoryChoices == {<<>>, <<A>>}

RECURSIVE ListsOver(_, _)
ListsOver(S, n) ==
    IF n = 0 THEN {<<>>}
    ELSE LET shorter == ListsOver(S, n - 1)
         IN shorter \cup {Append(l, x) : l \in {m \in shorter : Len(m) = n - 1}, x \in S}

MkTools(cs) == [i \in 1..Len(cs) |-> [id |-> i, categories |-> cs[i]]]

\* Short lists with any categories, long lists with plain ones.
ToolLists ==
    {MkTools(cs) : cs \in ListsOver(RichCategoryChoices, MaxRichTools)
                          \cup ListsOver(PlainCategoryChoices, MaxTools)}

\* findAlternative's result: null, or a record with its _count.tools.
Null == [found |-> FALSE, count |-> 0]
Alternatives == {[found |-> TRUE, count |-> c] : c \in 0..MaxCount}

Range(s) == {s[i] : i \in 1..Len(s)}

-----------------------------------------------------------------------------
\* AlternativePage: the derived display structures

\* Array.prototype.slice(start, end) for 0 <= start <= end.
Slice(s, start, end) == SubSeq(s, start + 1, Min(end, Len(s)))

DigitChars == <<"0", "1", "2", "3", "4", "5", "6", "7", "8", "9">>
IsDigit(c) == \E i \in 1..10 : DigitChars[i] = c
DigitValue(c) == (CHOOSE i \in 1..10 : DigitChars[i] = c) - 1

RECURSIVE NumValue(_)
NumValue(name) ==
    IF name = <<>> THEN 0
    ELSE 10 * NumValue(SubSeq(name, 1, Len(name) - 1)) + DigitValue(name[Len(name)])

\* A property key that is an array index: a canonical numeric string. (Keys of
\* ten digits up to 4294967294 are array indices too; the names here are shorter.)
IsArrayIndex(name) ==
    /\ Len(name) >= 1 /\ Len(name) <= 9
    /\ \A i \in 1..Len(name) : IsDigit(name[i])
    /\ Len(name) = 1 \/ name[1] # "0"

\* Keys every object literal inherits from Object.prototype (toString, valueOf
\* and the others behave as this one does).
ObjectPrototypeKeys == {Constructor}

\* acc = {}: its own keys in insertion order, and the count held by each.
EmptyAcc == [keys |-> <<>>, count |-> <<>>]

\* if (!acc[category.name]) acc[category.name] = { count: 0, category }
\* acc[category.name].count += 1
\* An inherited key reads as truthy, is never made an own property, and the
\* increment lands on the inherited object.
AccAdd(acc, name) ==
    IF \E i \in 1..Len(acc.keys) : acc.keys[i] = name
    THEN LET i == CHOOSE j \in 1..Len(acc.keys) : acc.keys[j] = name
         IN [acc EXCEPT !.count[i] = @ + 1]
    ELSE IF name \in ObjectPrototypeKeys
    THEN acc
    ELSE [keys |-> Append(acc.keys, name), count |-> Append(acc.count, 1)]

RECURSIVE AccAddAll(_, _)
AccAddAll(acc, names) ==
    IF names = <<>> THEN acc
    ELSE AccAddAll(AccAdd(acc, Head(names)), Tail(names))

\* tools.reduce((acc, { categories }) => { for (...) ...; return acc }, {})
RECURSIVE ReduceCategories(_, _)
ReduceCategories(acc, ts) ==
    IF ts = <<>> THEN acc
    ELSE ReduceCategories(AccAddAll(acc, Head(ts).categories), Tail(ts))

\* Insert e behind every element of the list whose rank is not above e's: a
\* stable insertion into a list of ascending rank.
RECURSIVE InsertStable(_, _)
InsertStable(list, e) ==
    IF list = <<>> THEN <<e>>
    ELSE IF e.rank < Head(list).rank THEN <<e>> \o list
    ELSE <<Head(list)>> \o InsertStable(Tail(list), e)

\* A stable sort of entries by ascending rank.
RECURSIVE SortStable(_)
SortStable(list) ==
    IF list = <<>> THEN <<>>
    ELSE InsertStable(SortStable(SubSeq(list, 1, Len(list) - 1)), list[Len(list)])

Entries(list) == [i \in 1..Len(list) |-> list[i].entry]

\* Object.values(acc): the own properties, those whose key is an array index
\* first in ascending numeric order, then the others in insertion order.
ObjectValues(acc) ==
    LET entries == [i \in 1..Len(acc.keys) |->
                       [name |-> acc.keys[i], count |-> acc.count[i]]]
        indexed == SelectSeq(entries, LAMBDA e : IsArrayIndex(e.name))
        others == SelectSeq(entries, LAMBDA e : ~IsArrayIndex(e.name))
        ranked == [i \in 1..Len(indexed) |->
                      [rank |-> NumValue(indexed[i].name), entry |-> indexed[i]]]
    IN Entries(SortStable(ranked)) \o others

\* .sort((a, b) => b.count - a.count): stable, descending count.
SortByCount(list) ==
    LET ranked == [i \in 1..Len(list) |-> [rank |-> 0 - list[i].count, entry |-> list[i]]]
    IN Entries(SortStable(ranked))

\* const categories = Object.values(tools.reduce(...)).sort(...)
Categories(ts) == SortByCount(ObjectValues(ReduceCategories(EmptyAcc, ts)))

BestToolsLimit == 5

\* A faulty variant of BestTools: no slice.
BestToolsUnlimited(ts) == [i \in 1..Len(ts) |-> ts[i].id]

\* The top 5 tools: tools.slice(0, 5).map(tool => <Link key={tool.id}>)
BestTools(ts) ==
    LET top == Slice(ts, 0, BestToolsLimit)
    IN [i \in 1..Len(top) |-> top[i].id]

\* The top categories: categories.slice(0, 3).map(({ category }) => <Link>)
BestCategoriesLimit == 3

BestCategories(cats) ==
    LET top == Slice(cats, 0, BestCategoriesLimit)
    IN [i \in 1..Len(top) |-> top[i].name]

\* getMetadata: the title carries the count only when count > 1.
GetMetadata(alt) == [count |-> alt.count, countInTitle |-> alt.count > 1, made |-> TRUE]

\* {alternative._count.tools ? `A curated collection ...` : `No open source ...`}
IntroDescription(alt) == IF alt.count # 0 THEN "curated" ELSE "noneFound"

\* {!!tools.length && <Section>}
ShowToolSection(ts) == Len(ts) # 0

\* A faulty variant of OtherTools: the best tool is read without shift().
OtherToolsNoShift(best) == best

\* bestTools after {bestTools.shift()}: JSX children are evaluated in order,
\* so every later read of bestTools sees the list without its first entry.
OtherTools(best) == Tail(best)

\* The text in front of entry `index` (from 0) of a list of `length` entries:
\* {index > 0 && index !== bestTools.length - 1 && ", "}
\* {index > 0 && index === bestTools.length - 1 && " and "}
Separator(index, length) ==
    (IF index > 0 /\ index # length - 1 THEN ", " ELSE "")
        \o (IF index > 0 /\ index = length - 1 THEN " and " ELSE "")

NoSummary == [best |-> 0, wording |-> "none", others |-> <<>>]

\* The first paragraph of the section: "The best open source alternative to
\* X is {bestTools.shift()}." and, when bestTools is not empty then, "Other
\* interesting open source alternative(s) to X is/are: ... ."
Summary(ts) ==
    LET best == BestTools(ts)
        others == OtherTools(best)
    IN [best |-> Head(best),
        wording |-> IF Len(others) = 0 THEN "none"
                    ELSE IF Len(others) = 1 THEN "singular" ELSE "plural",
        others |-> [i \in 1..Len(others) |->
                       [sep |-> Separator(i - 1, Len(others)), tool |-> others[i]]]]

\* What AlternativePage returns.
AlternativePageRender(alt, ts) ==
    [intro |-> IntroDescription(alt),
     section |-> ShowToolSection(ts),
     title |-> GetMetadata(alt),
     categories |-> Categories(ts),
     bestTools |-> BestTools(ts),
     bestCategories |-> BestCategories(Categories(ts)),
     summary |-> IF ShowToolSection(ts) THEN Summary(ts) ELSE NoSummary]

NoPage ==
    [intro |-> "none", section |-> FALSE, title |-> GetMetadata(Null),
     categories |-> <<>>, bestTools |-> <<>>, bestCategories |-> <<>>,
     summary |-> NoSummary]

NoMetadata == [count |-> 0, countInTitle |-> FALSE, made |-> FALSE]

-----------------------------------------------------------------------------
\* AlternativePage: the fetches

\* A faulty variant of GetAlternativeOutcome: the record is not checked.
GetAlternativeOutcomeUnchecked(record) == "fulfilled"

\* getAlternative after findAlternative returned: notFound() throws on a
\* missing record, otherwise the record is returned.
GetAlternativeOutcome(record) == IF ~record.found THEN "notFound" ELSE "fulfilled"

\* The page's continuation after `await props.params` is queued behind
\* getAlternative's continuation after `await params`.
ToolsFetchMayStart == altPc # "awaitParams"

\* Promise continuations run before any fetch can complete.
MicrotasksPending ==
    \/ altPc = "awaitParams"
    \/ pagePc = "awaitParams" /\ ToolsFetchMayStart

\* A faulty variant of AllFulfilled: the tools fetch is not awaited.
AnyFulfilled(a, t) == a = "fulfilled"

\* Promise.all fulfils when both promises have.
AllFulfilled(a, t) == a = "fulfilled" /\ t = "fulfilled"

\* One of the two promises settled as `settled`: Promise.all rejects with the
\* first rejection, and on fulfilment AlternativePage goes on to render.
PromiseAllStep(settled, a, t, altValue, toolsValue) ==
    IF pagePc # "awaitAll" THEN UNCHANGED <<pagePc, page>>
    ELSE IF settled # "fulfilled"
    THEN pagePc' = settled /\ UNCHANGED page
    ELSE IF AllFulfilled(a, t)
    THEN pagePc' = "rendered" /\ page' = AlternativePageRender(altValue, toolsValue)
    ELSE UNCHANGED <<pagePc, page>>

\* AlternativePage(props): getAlternative(props) runs up to `await params`,
\* then the page awaits props.params.
PageStart ==
    /\ pagePc = "init"
    /\ UNCHANGED <<sbVars, bcVars>>
    /\ pagePc' = "awaitParams"
    /\ altPc' = "awaitParams"
    /\ UNCHANGED <<dbAlternative, dbTools, toolsPc, alternative, tools, page,
                   metaPc, metadata, order, notFoundBy>>

\* getAlternative: findAlternative({ where: { slug } }) is issued.
GetAlternativeResume ==
    /\ altPc = "awaitParams"
    /\ UNCHANGED <<sbVars, bcVars>>
    /\ altPc' = "querying"
    /\ UNCHANGED <<dbAlternative, dbTools, pagePc, toolsPc, alternative, tools,
                   page, metaPc, metadata, order, notFoundBy>>

\* AlternativePage: findToolsWithCategories(...) is issued and Promise.all
\* is awaited.
PageResume ==
    /\ pagePc = "awaitParams" /\ ToolsFetchMayStart
    /\ UNCHANGED <<sbVars, bcVars>>
    /\ toolsPc' = "pending"
    /\ pagePc' = "awaitAll"
    /\ UNCHANGED <<dbAlternative, dbTools, altPc, alternative, tools, page,
                   metaPc, metadata, order, notFoundBy>>

\* findAlternative returns the record or null.
FindAlternativeReturns ==
    /\ altPc = "querying" /\ ~MicrotasksPending
    /\ UNCHANGED <<sbVars, bcVars>>
    /\ LET outcome == GetAlternativeOutcome(dbAlternative)
       IN /\ altPc' = outcome
          /\ alternative' = IF outcome = "fulfilled" THEN dbAlternative ELSE alternative
          /\ notFoundBy' = IF outcome = "notFound" THEN notFoundBy \cup {"page"}
                           ELSE notFoundBy
          /\ PromiseAllStep(outcome, outcome, toolsPc, alternative', tools)
    /\ order' = Append(order, "alternative")
    /\ UNCHANGED <<dbAlternative, dbTools, toolsPc, tools, metaPc, metadata>>

\* findAlternative fails.
FindAlternativeFails ==
    /\ altPc = "querying" /\ ~MicrotasksPending
    /\ UNCHANGED <<sbVars, bcVars>>
    /\ altPc' = "error"
    /\ PromiseAllStep("error", "error", toolsPc, alternative, tools)
    /\ order' = Append(order, "alternative")
    /\ UNCHANGED <<dbAlternative, dbTools, toolsPc, alternative, tools, metaPc,
                   metadata, notFoundBy>>

\* findToolsWithCategories returns the tools.
FindToolsReturns ==
    /\ toolsPc = "pending" /\ ~MicrotasksPending
    /\ UNCHANGED <<sbVars, bcVars>>
    /\ toolsPc' = "fulfilled"
    /\ tools' = dbTools
    /\ PromiseAllStep("fulfilled", altPc, "fulfilled", alternative, tools')
    /\ order' = Append(order, "tools")
    /\ UNCHANGED <<dbAlternative, dbTools, altPc, alternative, metaPc, metadata,
                   notFoundBy>>

\* findToolsWithCategories fails.
FindToolsFails ==
    /\ toolsPc = "pending" /\ ~MicrotasksPending
    /\ UNCHANGED <<sbVars, bcVars>>
    /\ toolsPc' = "error"
    /\ PromiseAllStep("error", altPc, "error", alternative, tools)
    /\ order' = Append(order, "tools")
    /\ UNCHANGED <<dbAlternative, dbTools, altPc, alternative, tools, metaPc,
                   metadata, notFoundBy>>

\* generateMetadata(props): getAlternative(props) is called and awaited. Its
\* lookup is kept apart from the page's: when cache() hands both callers the
\* same promise the two lookups end alike, which is among the cases here.
MetadataStart ==
    /\ metaPc = "init"
    /\ UNCHANGED <<sbVars, bcVars>>
    /\ metaPc' = "querying"
    /\ UNCHANGED <<dbAlternative, dbTools, pagePc, altPc, toolsPc, alternative,
                   tools, page, metadata, order, notFoundBy>>

\* generateMetadata's lookup returns: notFound() or the metadata.
MetadataLookupReturns ==
    /\ metaPc = "querying"
    /\ UNCHANGED <<sbVars, bcVars>>
    /\ LET outcome == GetAlternativeOutcome(dbAlternative)
       IN IF outcome = "fulfilled"
          THEN /\ metaPc' = "metadata"
               /\ metadata' = GetMetadata(dbAlternative)
               /\ UNCHANGED notFoundBy
          ELSE /\ metaPc' = outcome
               /\ notFoundBy' = notFoundBy \cup {"metadata"}
               /\ UNCHANGED metadata
    /\ UNCHANGED <<dbAlternative, dbTools, pagePc, altPc, toolsPc, alternative,
                   tools, page, order>>

\* generateMetadata's lookup fails.
MetadataLookupFails ==
    /\ metaPc = "querying"
    /\ UNCHANGED <<sbVars, bcVars>>
    /\ metaPc' = "error"
    /\ UNCHANGED <<dbAlternative, dbTools, pagePc, altPc, toolsPc, alternative,
                   tools, page, metadata, order, notFoundBy>>

-----------------------------------------------------------------------------
\* Specifications

PageNext ==
    \/ PageStart
    \/ GetAlternativeResume
    \/ PageResume
    \/ FindAlternativeReturns
    \/ FindAlternativeFails
    \/ FindToolsReturns
    \/ FindToolsFails
    \/ MetadataStart
    \/ MetadataLookupReturns
    \/ MetadataLookupFails

-----------------------------------------------------------------------------
\* Breadcrumbs

\* config.site.url and config.site.name, whatever the configuration holds.
SiteUrl == "https://site.example"
SiteName == "Site"

\* A name is a string or another React node; typeof tells them apart.
StringName(v) == [typeof |-> "string", value |-> v]
NodeName(t, v) == [typeof |-> t, value |-> v]

\* <Home aria-label="Home" />
HomeIcon == NodeName("object", "Home")

Names == {StringName("Tools"), StringName(""), NodeName("object", "Badge"),
          NodeName("number", "7")}
Hrefs == {"/tools", "/tools/x"}
Breadcrumb == [href : Hrefs, name : Names]
ItemLists == ListsOver(Breadcrumb, MaxItems)

\* [{ href: "/", name: <Home/> }, ...items]
BreadcrumbItems(its) == <<[href |-> "/", name |-> HomeIcon]>> \o its

\* typeof name === "string" ? name : config.site.name
JsonLdName(name) == IF name.typeof = "string" THEN name.value ELSE SiteName

\* A faulty variant of ShowSeparator: a separator before every entry.
ShowSeparatorAlways(index) == TRUE

\* {index > 0 && <BreadcrumbsSeparator />}
ShowSeparator(index) == index > 0

\* breadcrumbItems.map(({ href, name }, index) => ({ "@type": "ListItem", ... }))
ItemListElement(its) ==
    LET breadcrumbItems == BreadcrumbItems(its)
    IN [i \in 1..Len(breadcrumbItems) |->
           LET index == i - 1
           IN [position |-> index + 1,
               id |-> SiteUrl \o breadcrumbItems[i].href,
               name |-> JsonLdName(breadcrumbItems[i].name)]]

\* breadcrumbItems.map(({ href, name }, index) => <div key={index}>...</div>)
NavChildren(its) ==
    LET breadcrumbItems == BreadcrumbItems(its)
    IN [i \in 1..Len(breadcrumbItems) |->
           LET index == i - 1
           IN [key |-> index,
               separator |-> ShowSeparator(index),
               href |-> breadcrumbItems[i].href,
               name |-> breadcrumbItems[i].name]]

\* Breadcrumbs is called with the items prop and returns its elements.
BreadcrumbsRender ==
    /\ breadcrumbsPc = "init"
    /\ nav' = NavChildren(items)
    /\ jsonLd' = ItemListElement(items)
    /\ breadcrumbsPc' = "rendered"
    /\ UNCHANGED <<items, sbVars, pgVars>>

BreadcrumbsNext == BreadcrumbsRender

\* SearchBox alone: the component is about to mount, with any query held by
\* the index client; AlternativePage is not running.
Init ==
    /\ mounted = FALSE
    /\ query \in Texts
    /\ status = "idle"
    /\ searchQuery = query
    /\ debounced = query
    /\ timer = NoTimer
    /\ call = NoCall
    /\ sinceChange = 0
    /\ burst = 0
    /\ lastInput = "none"
    /\ refinedSinceInput = FALSE
    /\ userActive = TRUE
    /\ dbAlternative = Null
    /\ dbTools = <<>>
    /\ pagePc = "init"
    /\ altPc = "none"
    /\ toolsPc = "none"
    /\ alternative = Null
    /\ tools = <<>>
    /\ page = NoPage
    /\ metaPc = "init"
    /\ metadata = NoMetadata
    /\ order = <<>>
    /\ notFoundBy = {}
    /\ breadcrumbsPc = "init"
    /\ items = <<>>
    /\ nav = <<>>
    /\ jsonLd = <<>>

Next == SearchNext

Spec == Init /\ [][Next]_vars

\* Time passes and due timeouts are run.
FairSpec == Spec /\ WF_vars(Mount) /\ WF_vars(Tick) /\ WF_vars(TimerFire)

\* AlternativePage and generateMetadata alone, for any stored alternative
\* (or none) and any stored tool list; SearchBox is not mounted.
PageSpecInit ==
    /\ mounted = FALSE
    /\ query = ""
    /\ status = "idle"
    /\ searchQuery = ""
    /\ debounced = ""
    /\ timer = NoTimer
    /\ call = NoCall
    /\ sinceChange = 0
    /\ burst = 0
    /\ lastInput = "none"
    /\ refinedSinceInput = FALSE
    /\ userActive = TRUE
    /\ dbAlternative \in {Null} \cup Alternatives
    /\ dbTools \in ToolLists
    /\ pagePc = "init"
    /\ altPc = "none"
    /\ toolsPc = "none"
    /\ alternative = Null
    /\ tools = <<>>
    /\ page = NoPage
    /\ metaPc = "init"
    /\ metadata = NoMetadata
    /\ order = <<>>
    /\ notFoundBy = {}
    /\ breadcrumbsPc = "init"
    /\ items = <<>>
    /\ nav = <<>>
    /\ jsonLd = <<>>

PageSpec == PageSpecInit /\ [][PageNext]_vars

\* Breadcrumbs alone, about to be rendered with any items list; SearchBox is
\* not mounted and AlternativePage is not running.
BreadcrumbsSpecInit ==
    /\ mounted = FALSE
    /\ query = ""
    /\ status = "idle"
    /\ searchQuery = ""
    /\ debounced = ""
    /\ timer = NoTimer
    /\ call = NoCall
    /\ sinceChange = 0
    /\ burst = 0
    /\ lastInput = "none"
    /\ refinedSinceInput = FALSE
    /\ userActive = TRUE
    /\ dbAlternative = Null
    /\ dbTools = <<>>
    /\ pagePc = "init"
    /\ altPc = "none"
    /\ toolsPc = "none"
    /\ alternative = Null
    /\ tools = <<>>
    /\ page = NoPage
    /\ metaPc = "init"
    /\ metadata = NoMetadata
    /\ order = <<>>
    /\ notFoundBy = {}
    /\ breadcrumbsPc = "init"
    /\ items \in ItemLists
    /\ nav = <<>>
    /\ jsonLd = <<>>

BreadcrumbsSpec == BreadcrumbsSpecInit /\ [][BreadcrumbsNext]_vars

-----------------------------------------------------------------------------
\* Properties of SearchBox

\* C1 (as stated): every refine call, the mount effect's included, is made at
\* least Delay ms after the most recent change of the input text.
C1_Original == call.made => sinceChange >= Delay

\* C1 (amended): every refine call other than the mount effect's is made at
\* least Delay ms after the most recent change of the input text; the mount
\* effect calls refine with the initial query at once, with no quiet period.
C1_DebouncedExceptMount ==
    /\ (call.made /\ ~call.onMount) => sinceChange >= Delay
    /\ (call.made /\ call.onMount) => (sinceChange = 0 /\ call.value = searchQuery)

C1_Witness ==
    /\ call.made /\ ~call.onMount
    /\ lastInput = "change"
    /\ burst >= 2

\* The input was cleared by the user: by the reset button or by editing the
\* text down to the empty string.
Cleared == mounted /\ searchQuery = "" /\ lastInput # "none"

\* C2 (as stated): after the input is cleared, a refine("") call is issued:
\* once the clear's quiet period is over (its timeout has fired), refine has
\* been called since the clear.
C2_Original == (Cleared /\ ~timer.active) => refinedSinceInput

\* C2 (amended): whenever the input is cleared the local text is "" and,
\* unless the text is edited again first, the timeout fires and from then on
\* the index client's query is ""; the refine("") call for that clear is made
\* exactly when the debounced value was not already "".
C2_ClearSettlesEmpty ==
    /\ [](Cleared => <>(searchQuery # "" \/ (~timer.active /\ query = "" /\ debounced = "")))
    /\ [][(Cleared /\ timer.active /\ ~timer'.active)
            => (call'.made <=> debounced # "")]_vars

C2_Witness ==
    /\ Cleared /\ ~timer.active /\ query = ""
    /\ ~refinedSinceInput

\* C3: a refine call made after keystrokes passes the text that is in the
\* input now and that has stayed there unchanged for a full Delay ms, so no
\* text replaced within a burst is ever passed.
C3_NoIntermediateValue ==
    (call.made /\ ~call.onMount) =>
        /\ call.value = searchQuery
        /\ call.value = debounced
        /\ sinceChange >= Delay
        /\ ~timer.active

C3_Witness ==
    /\ call.made /\ ~call.onMount
    /\ burst = MaxBurst
    /\ call.value # ""

\* C4 (as stated): once the user has stopped typing, the final input text is
\* submitted through refine: when the last timeout has run, refine has been
\* called since the last input event and the value it was last given is the
\* final text.
C4_Original ==
    (mounted /\ ~userActive /\ ~timer.active) =>
        (refinedSinceInput /\ query = searchQuery)

\* C4 (amended): once the user has stopped typing, the value last passed to
\* refine eventually equals the final input text and stays so; the timeout
\* that ends a quiet period makes a refine call exactly when the text differs
\* from the debounced value, so a final text equal to the value submitted
\* before the burst is not submitted again.
C4_LastInputWins ==
    /\ [](~userActive => <>[](query = searchQuery /\ ~timer.active))
    /\ [][(timer.active /\ ~timer'.active)
            => (call'.made <=> searchQuery # debounced)]_vars

C4_Witness ==
    /\ ~userActive /\ ~timer.active
    /\ lastInput = "change" /\ searchQuery # ""
    /\ query = searchQuery
    /\ ~refinedSinceInput

\* C12: the reset button and the loading indicator are never displayed
\* together: the button is displayed exactly when the text is not empty and
\* the status is not stalled, the indicator exactly when the status is
\* stalled; and no reset is made through the button while the search is
\* stalled.
C12_ResetXorLoader ==
    /\ [](mounted =>
            /\ ~(ShowResetButton /\ ShowLoaderIcon)
            /\ ShowResetButton <=> (searchQuery # "" /\ status # "stalled")
            /\ ShowLoaderIcon <=> status = "stalled")
    /\ [][(lastInput' = "reset" /\ searchQuery # "" /\ searchQuery' = "")
            => status # "stalled"]_vars

C12_Witness ==
    /\ mounted /\ status = "stalled"
    /\ searchQuery # ""
    /\ ShowLoaderIcon /\ ~ShowResetButton

\* C9 (as stated): whenever the search status is loading or stalled, the
\* loading indicator is displayed.
C9_Original == (mounted /\ status \in {"loading", "stalled"}) => ShowLoaderIcon

\* C9 (amended): the loading indicator is displayed whenever the status is
\* stalled, and is not displayed while the status is loading.
C9_LoaderOnlyWhenStalled ==
    mounted =>
        /\ status = "stalled" => ShowLoaderIcon
        /\ status = "loading" => ~ShowLoaderIcon

C9_Witness == mounted /\ status = "stalled" /\ ShowLoaderIcon /\ query # ""

-----------------------------------------------------------------------------
\* Properties of AlternativePage

\* The category names of a tool list in the order the scan meets them.
RECURSIVE ScanOrder(_)
ScanOrder(ts) ==
    IF ts = <<>> THEN <<>> ELSE Head(ts).categories \o ScanOrder(Tail(ts))

FirstMet(name, ts) ==
    CHOOSE i \in 1..Len(ScanOrder(ts)) :
        /\ ScanOrder(ts)[i] = name
        /\ \A j \in 1..(i - 1) : ScanOrder(ts)[j] # name

Carriers(name, ts) == {i \in 1..Len(ts) : name \in Range(ts[i].categories)}

\* C5 (as stated): the categories list holds each distinct category once with
\* the number of tools carrying it, in descending count, equal counts in the
\* order in which the scan of the tools first met them.
C5_Original ==
    pagePc = "rendered" =>
        LET cats == page.categories
        IN /\ {cats[i].name : i \in 1..Len(cats)} = Range(ScanOrder(tools))
           /\ Len(cats) = Cardinality(Range(ScanOrder(tools)))
           /\ \A i \in 1..Len(cats) :
                  cats[i].count = Cardinality(Carriers(cats[i].name, tools))
           /\ \A i, j \in 1..Len(cats) :
                  i < j => /\ cats[i].count >= cats[j].count
                           /\ cats[i].count = cats[j].count
                                => FirstMet(cats[i].name, tools) < FirstMet(cats[j].name, tools)

\* C6 (as stated): with a stored tool count of zero the page shows the
\* none-found message and no tool list section, whatever the fetched tool
\* list is, so the two are never rendered together.
C6_Original ==
    pagePc = "rendered" =>
        /\ alternative.count = 0 => (page.intro = "noneFound" /\ ~page.section)
        /\ ~(page.intro = "noneFound" /\ page.section)

\* C7 (as stated): once findAlternative has returned no record, the page's
\* outcome is the not-found response, with no page content and no metadata,
\* whatever the tools fetch did and whenever it completed.
C7_Original ==
    altPc = "notFound" =>
        /\ pagePc = "notFound"
        /\ "page" \in notFoundBy
        /\ page = NoPage
        /\ metadata = NoMetadata

\* C7 (amended): once findAlternative has returned no record, notFound() has
\* been invoked, no page content and no metadata is produced, and the page's
\* outcome is the not-found response unless the tools fetch failed before
\* the lookup returned: then the outcome is that failure. generateMetadata
\* on a missing record ends in notFound() or in its lookup's failure.
C7_NotFoundUnlessToolsFailedFirst ==
    /\ altPc = "notFound" =>
          /\ "page" \in notFoundBy
          /\ page = NoPage
          /\ pagePc \in {"notFound", "error"}
          /\ pagePc = "error" <=> (toolsPc = "error" /\ order[1] = "tools")
    /\ ~dbAlternative.found =>
          /\ pagePc # "rendered" /\ page = NoPage
          /\ metaPc # "metadata" /\ metadata = NoMetadata
          /\ metaPc = "notFound" <=> "metadata" \in notFoundBy

C7_Witness ==
    /\ altPc = "notFound" /\ pagePc = "notFound"
    /\ order = <<"tools", "alternative">>
    /\ Len(tools) > 0
    /\ metaPc = "notFound"

\* C8: the bestTools list has min(5, number of fetched tools) entries, never
\* more than 5, and they are the first fetched tools in the fetched order.
C8_BestToolsTopFive ==
    pagePc = "rendered" =>
        /\ Len(page.bestTools) = Min(5, Len(tools))
        /\ Len(page.bestTools) <= 5
        /\ \A i \in 1..Len(page.bestTools) : page.bestTools[i] = tools[i].id

C8_Witness ==
    /\ pagePc = "rendered"
    /\ Len(tools) > 5
    /\ Len(page.bestTools) = 5

\* C10: the page is rendered only when both fetches have completed, neither
\* fetch completes before the other has been started, and what is rendered is
\* the rendering of the two results, whichever completed first.
C10_RenderAfterBoth ==
    /\ pagePc = "rendered" =>
          /\ altPc = "fulfilled" /\ toolsPc = "fulfilled"
          /\ Range(order) = {"alternative", "tools"}
          /\ page = AlternativePageRender(dbAlternative, dbTools)
    /\ pagePc # "rendered" => page = NoPage
    /\ altPc \in {"fulfilled", "notFound", "error"} => toolsPc # "none"
    /\ toolsPc \in {"fulfilled", "error"} => altPc \notin {"none", "awaitParams"}

C10_Witness ==
    /\ pagePc = "rendered"
    /\ order = <<"tools", "alternative">>
    /\ Len(tools) > 1
    /\ page.section

\* C11: for a non-empty list of n fetched tools the summary names tools[0] as
\* the best alternative and lists exactly the next min(n, 5) - 1 tools, in
\* list order and never tools[0] again, as the others; the clause is left out
\* when n = 1, worded in the singular for one other tool, and for two or more
\* others there is nothing before the first, ", " before each middle one and
\* " and " before the last.
C11_SummarySentence ==
    (pagePc = "rendered" /\ Len(tools) >= 1) =>
        LET sum == page.summary
            k == Len(sum.others)
        IN /\ sum.best = tools[1].id
           /\ k = Min(Len(tools), 5) - 1
           /\ \A i \in 1..k : /\ sum.others[i].tool = tools[i + 1].id
                              /\ sum.others[i].tool # tools[1].id
           /\ sum.wording = "none" <=> Len(tools) = 1
           /\ sum.wording = "singular" <=> k = 1
           /\ sum.wording = "plural" <=> k >= 2
           /\ \A i \in 1..k :
                  sum.others[i].sep = IF i = 1 THEN ""
                                      ELSE IF i < k THEN ", " ELSE " and "

C11_Witness ==
    /\ pagePc = "rendered"
    /\ Len(tools) > 5
    /\ Len(page.summary.others) = 4
    /\ page.summary.others[2].sep = ", "
    /\ page.summary.others[4].sep = " and "
    /\ page.summary.others[4].tool = tools[5].id

-----------------------------------------------------------------------------
\* Properties of Breadcrumbs

\* C13: for every items list of length n, n = 0 included, the rendered trail
\* and the JSON-LD list both have n + 1 entries; the first entry is the Home
\* item with href "/"; the given items follow in their order; the positions
\* are 1..n+1; a separator is rendered before every entry but the first, n
\* in all; and an entry whose name is not a string has the site name as its
\* JSON-LD name.
C13_TrailAndJsonLd ==
    breadcrumbsPc = "rendered" =>
        LET n == Len(items)
        IN /\ Len(nav) = n + 1
           /\ Len(jsonLd) = n + 1
           /\ nav[1].href = "/" /\ nav[1].name = HomeIcon
           /\ jsonLd[1].id = SiteUrl \o "/"
           /\ \A i \in 1..n :
                  /\ nav[i + 1].href = items[i].href
                  /\ nav[i + 1].name = items[i].name
                  /\ jsonLd[i + 1].id = SiteUrl \o items[i].href
                  /\ items[i].name.typeof = "string"
                         => jsonLd[i + 1].name = items[i].name.value
                  /\ items[i].name.typeof # "string"
                         => jsonLd[i + 1].name = SiteName
           /\ jsonLd[1].name = SiteName
           /\ \A i \in 1..(n + 1) : jsonLd[i].position = i
           /\ \A i \in 1..(n + 1) : nav[i].separator <=> i > 1
           /\ Cardinality({i \in 1..(n + 1) : nav[i].separator}) = n

C13_Witness ==
    /\ breadcrumbsPc = "rendered"
    /\ Len(items) >= 2
    /\ items[1].name.typeof = "string" /\ items[2].name.typeof = "object"
    /\ jsonLd[2].name = items[1].name.value
    /\ jsonLd[3].name = SiteName /\ jsonLd[3].position = 3
    /\ nav[3].separator /\ ~nav[1].separator

====
